---- MODULE Spec2Model ----
(***************************************************************************)
(* node-vcam: the demo (samples/demo.ts) and the format / check scripts    *)
(* (scripts/format.ts).                                                    *)
(*                                                                         *)
(* Two independent programs are modelled, each under its own               *)
(* specification:                                                          *)
(*   Spec, SpecFair  the demo: the top-level script, the interval timer    *)
(*                   and its callback (fill, send, increment);             *)
(*   SpecScripts     the format and the check script: two execSync calls   *)
(*                   each, over a working tree of files.                   *)
(***************************************************************************)
EXTENDS Integers, Sequences, FiniteSets, TLC

(***************************************************************************)
(* Bounds.  Width and Height stand for the frame dimensions, which the     *)
(* source writes as the literals 1280 and 720 (demo.ts:5,6,13,14,15); the  *)
(* model keeps the code's arithmetic and scales the two numbers so that    *)
(* the whole buffer is a value TLC can hold.  Height exceeds 256 so that   *)
(* the row byte i % 256 wraps, Width exceeds 1 so that a row has more than *)
(* one column, and MaxTicks exceeds 256 so that timer % 256 wraps.         *)
(***************************************************************************)
Width == 2
Height == 257
MaxTicks == 258
NumFiles == 2

VARIABLES
    \* ---- demo.ts
    pc,          \* position of the single JS thread: a line of the top-level
                 \* script, "idle" (call stack empty, event loop waiting),
                 \* a line of the timer callback, or "crashed"
    camera,      \* the Camera object, NoCamera before line 5
    pixels,      \* contents of the Uint8Array bound to `pixels`
    pixelsBuf,   \* identity of that Uint8Array (0 before line 6)
    allocs,      \* number of Uint8Array allocations made so far
    timer,       \* `let timer`
    calls,       \* the Camera/timer API calls of the top-level script, in order
    registered,  \* the interval timer is armed
    due,         \* the interval has elapsed and the callback is pending
    active,      \* callback invocations begun and not yet completed
    fill,        \* what the latest fill did: the buffer it left (buf, len),
                 \* per index the number of writes it made (cnt), and the
                 \* out-of-range indices it wrote (oob)
    sendCalls,   \* number of calls of camera.send made
    sends,       \* number of calls of camera.send that returned
    sentBuf,     \* identity of the buffer passed to the latest send
    lastSent,    \* contents of the buffer at the latest call of send
    frame0,      \* contents of the buffer at the first call of send
    \* ---- format.ts
    files,       \* the working tree: file id -> [ext, fmt, lint]
    script,      \* the script being run: "format", "check" or "none"
    spc,         \* the script's position
    child,       \* the external tool running as a child process, or "none"
    started,     \* the tools this run has started, in order, with exit status
    exitStatus,  \* exit status of the script's process, -1 while it runs
    last         \* the previous run: [script, status]

demoVars == <<pc, camera, pixels, pixelsBuf, allocs, timer, calls, registered,
              due, active, fill, sendCalls, sends, sentBuf,
              lastSent, frame0>>
scriptVars == <<files, script, spc, child, started, exitStatus, last>>
vars == <<pc, camera, pixels, pixelsBuf, allocs, timer, calls, registered,
          due, active, fill, sendCalls, sends, sentBuf,
          lastSent, frame0, files, script, spc, child, started, exitStatus,
          last>>

(***************************************************************************)
(*                              demo.ts                                    *)
(***************************************************************************)
NoCamera == [width |-> 0, height |-> 0, started |-> FALSE, exists |-> FALSE]

\* new Uint8Array(1280 * 720 * 4)
AllocLength == Width * Height * 4

\* A Uint8Array element store converts the number modulo 2^8.
ToUint8(v) == v % 256

\* Top-level statements in program order.
MainNextSwapped(line) ==
    CASE line = "L5" -> "L6"
      [] line = "L6" -> "L8"
      [] line = "L8" -> "L12"
      [] line = "L12" -> "L10"
      [] line = "L10" -> "idle"
MainNext(line) ==
    CASE line = "L5" -> "L6"
      [] line = "L6" -> "L8"
      [] line = "L8" -> "L10"
      [] line = "L10" -> "L12"
      [] line = "L12" -> "idle"

\* const off = i * 1280 + j
OffSwapped(i, j) == i * Height + j
Off(i, j) == i * Width + j

RedIndex(off) == 4 * off
GreenIndex(off) == 4 * off + 1
BlueIndex(off) == 4 * off + 2
AlphaIndexAsBlue(off) == 4 * off + 2
AlphaIndex(off) == 4 * off + 3

\* pixels[4 * off] = timer % 256
RedValueStuck(t) == 0
RedValue(t) == t % 256

\* pixels[4 * off + 2] = i % 256
BlueValue(i, j) == i % 256

\* pixels[idx] = v.  A typed array ignores a store outside 0..length-1; the
\* fill state records it.
Store(st, idx, v) ==
    IF 0 <= idx /\ idx < st.len
    THEN [st EXCEPT !.buf[idx] = ToUint8(v), !.cnt[idx] = @ + 1]
    ELSE [st EXCEPT !.oob = @ \cup {idx}]

\* Let(x, Body): Body applied to the value of x.  It sequences two
\* statements (x is the state the first leaves, Body the rest) and binds a
\* `const`; the value is computed once however often Body reads it.
Let(x, Body(_)) == CHOOSE r \in {Body(v) : v \in {x}} : TRUE

\* The body of the inner loop, lines 15-19.
WritePixel(st, i, j, t) ==
    Let(Off(i, j), LAMBDA off :
    Let(Store(st, RedIndex(off), RedValue(t)), LAMBDA s1 :
    Let(Store(s1, GreenIndex(off), 0), LAMBDA s2 :
    Let(Store(s2, BlueIndex(off), BlueValue(i, j)), LAMBDA s3 :
    Store(s3, AlphaIndex(off), 255)))))

\* The two for loops run their bodies for i (for j) = lo, lo+1, ..., hi-1 in
\* that order.  The iteration is written by halving the range, which visits
\* the same indices in the same order as the loop does and keeps the depth of
\* evaluation logarithmic in the trip count.
RECURSIVE InnerLoop(_, _, _, _, _)
\* for (let j = 0; j < 1280; j++), the iterations lo <= j < hi
InnerLoop(st, i, lo, hi, t) ==
    IF hi <= lo THEN st
    ELSE IF hi = lo + 1 THEN WritePixel(st, i, lo, t)
    ELSE Let((lo + hi) \div 2, LAMBDA mid :
         Let(InnerLoop(st, i, lo, mid, t), LAMBDA s :
         InnerLoop(s, i, mid, hi, t)))

RECURSIVE OuterLoop(_, _, _, _)
\* for (let i = 0; i < 720; i++), the iterations lo <= i < hi
OuterLoop(st, lo, hi, t) ==
    IF hi <= lo THEN st
    ELSE IF hi = lo + 1 THEN Let(lo, LAMBDA i : InnerLoop(st, i, 0, Width, t))
    ELSE Let((lo + hi) \div 2, LAMBDA mid :
         Let(OuterLoop(st, lo, mid, t), LAMBDA s :
         OuterLoop(s, mid, hi, t)))

ByteLength(buf) == Cardinality(DOMAIN buf)

\* The timer callback's fill of `buf` at counter value t.
FillResult(buf, t) ==
    Let(t, LAMBDA tv :
    Let([buf |-> buf, len |-> ByteLength(buf),
         cnt |-> [x \in DOMAIN buf |-> 0], oob |-> {}], LAMBDA s0 :
    OuterLoop(s0, 0, Height, tv)))

\* A timer callback is dispatched only from the event loop, that is when no
\* JavaScript is on the call stack; the callback has no await or yield, so the
\* stack stays occupied from its first statement to its last.
StackEmptyPreemptive == pc # "crashed"
StackEmpty == pc = "idle"

\* setInterval re-arms after each expiry (setTimeout would not).
RepeatingOneShot == FALSE
Repeating == TRUE

CallbackLines == {"L13", "L23", "L24"}

NoFill == [buf |-> <<>>, len |-> 0, cnt |-> <<>>, oob |-> {}]

DemoInit ==
    /\ pc = "L5"
    /\ camera = NoCamera
    /\ pixels = <<>>
    /\ pixelsBuf = 0
    /\ allocs = 0
    /\ timer = 0
    /\ calls = <<>>
    /\ registered = FALSE
    /\ due = FALSE
    /\ active = 0
    /\ fill = NoFill
    /\ sendCalls = 0
    /\ sends = 0
    /\ sentBuf = 0
    /\ lastSent = <<>>
    /\ frame0 = <<>>

\* line 5: const camera = new Camera(1280, 720)
NewCamera ==
    /\ pc = "L5"
    /\ camera' = [width |-> Width, height |-> Height, started |-> FALSE,
                  exists |-> TRUE]
    /\ calls' = Append(calls, "new Camera")
    /\ pc' = MainNext("L5")
    /\ UNCHANGED <<pixels, pixelsBuf, allocs, timer, registered, due, active,
                   fill, sendCalls, sends, sentBuf, lastSent,
                   frame0>>

\* line 6: const pixels = new Uint8Array(1280 * 720 * 4)
AllocPixels ==
    /\ pc = "L6"
    /\ pixels' = [x \in 0 .. AllocLength - 1 |-> 0]
    /\ allocs' = allocs + 1
    /\ pixelsBuf' = allocs + 1
    /\ pc' = MainNext("L6")
    /\ UNCHANGED <<camera, timer, calls, registered, due, active, fill,
                   sendCalls, sends, sentBuf, lastSent, frame0>>

\* line 8: let timer = 0
InitTimer ==
    /\ pc = "L8"
    /\ timer' = 0
    /\ pc' = MainNext("L8")
    /\ UNCHANGED <<camera, pixels, pixelsBuf, allocs, calls, registered, due,
                   active, fill, sendCalls, sends, sentBuf,
                   lastSent, frame0>>

\* line 10: camera.start() returns
Start ==
    /\ pc = "L10"
    /\ camera.exists
    /\ camera' = [camera EXCEPT !.started = TRUE]
    /\ calls' = Append(calls, "start")
    /\ pc' = MainNext("L10")
    /\ UNCHANGED <<pixels, pixelsBuf, allocs, timer, registered, due, active,
                   fill, sendCalls, sends, sentBuf, lastSent,
                   frame0>>

\* line 10: camera.start() throws; nothing catches it and the process ends
StartFails ==
    /\ pc = "L10"
    /\ camera.exists
    /\ calls' = Append(calls, "start")
    /\ pc' = "crashed"
    /\ UNCHANGED <<camera, pixels, pixelsBuf, allocs, timer, registered, due,
                   active, fill, sendCalls, sends, sentBuf,
                   lastSent, frame0>>

\* line 12: setInterval(callback, 1000.0 / FPS)
SetInterval ==
    /\ pc = "L12"
    /\ registered' = TRUE
    /\ calls' = Append(calls, "setInterval")
    /\ pc' = MainNext("L12")
    /\ UNCHANGED <<camera, pixels, pixelsBuf, allocs, timer, due, active,
                   fill, sendCalls, sends, sentBuf, lastSent,
                   frame0>>

\* 1000/60 ms have passed since the timer was armed: the callback is pending.
\* Time passes whatever the thread is doing, also in the middle of a callback.
TimerElapse ==
    /\ registered
    /\ ~due
    /\ pc # "crashed"
    /\ due' = TRUE
    /\ UNCHANGED <<pc, camera, pixels, pixelsBuf, allocs, timer, calls,
                   registered, active, fill, sendCalls, sends,
                   sentBuf, lastSent, frame0>>

\* The event loop invokes the pending callback.
CallbackBegin ==
    /\ registered
    /\ due
    /\ StackEmpty
    /\ timer < MaxTicks
    /\ due' = FALSE
    /\ registered' = Repeating
    /\ active' = active + 1
    /\ pc' = "L13"
    /\ UNCHANGED <<camera, pixels, pixelsBuf, allocs, timer, calls, fill,
                   sendCalls, sends, sentBuf, lastSent, frame0>>

\* lines 13-21: the nested loops
Fill ==
    /\ pc = "L13"
    /\ fill' = FillResult(pixels, timer)
    /\ pixels' = fill'.buf
    /\ pc' = "L23"
    /\ UNCHANGED <<camera, pixelsBuf, allocs, timer, calls, registered, due,
                   active, sendCalls, sends, sentBuf, lastSent, frame0>>

\* What line 23 hands to camera.send.
SendCall ==
    /\ sendCalls' = sendCalls + 1
    /\ sentBuf' = pixelsBuf
    /\ lastSent' = pixels
    /\ frame0' = IF sendCalls = 0 THEN pixels ELSE frame0

\* line 23: camera.send(pixels) returns
Send ==
    /\ pc = "L23"
    /\ SendCall
    /\ sends' = sends + 1
    /\ pc' = "L24"
    /\ UNCHANGED <<camera, pixels, pixelsBuf, allocs, timer, calls,
                   registered, due, active, fill>>

\* line 23: camera.send(pixels) throws; nothing catches it and the process ends
SendFails ==
    /\ pc = "L23"
    /\ SendCall
    /\ pc' = "crashed"
    /\ UNCHANGED <<camera, pixels, pixelsBuf, allocs, timer, calls,
                   registered, due, active, fill, sends>>

\* line 24: timer++, and the callback returns to the event loop
Increment ==
    /\ pc = "L24"
    /\ timer' = timer + 1
    /\ active' = active - 1
    /\ pc' = "idle"
    /\ UNCHANGED <<camera, pixels, pixelsBuf, allocs, calls, registered, due,
                   fill, sendCalls, sends, sentBuf, lastSent,
                   frame0>>

(***************************************************************************)
(*                             format.ts                                   *)
(* The file holds the repository's format script (lines 1-4) and its check *)
(* script (lines 6-9).  Each runs two external tools with execSync.  The   *)
(* tools are modelled by what they do to a working tree of files and by    *)
(* the exit status they document.                                          *)
(***************************************************************************)
Exts == {"js", "ts", "json", "rs", "md"}

\* A file: its extension, whether its text is in canonical style ("ok"), is
\* not ("ugly") or does not parse ("broken"), and whether it has lint errors.
FileState ==
    {f \in [ext : Exts, fmt : {"ok", "ugly", "broken"}, lint : {"clean", "dirty"}] :
        f.lint = "dirty" => f.ext \in {"js", "ts"}}

\* "**/*.{js,ts,json}" of line 3
FormatGlobNoJson == {"js", "ts"}
FormatGlob == {"js", "ts", "json"}
\* "**/*.{js,ts,json}" of line 8
CheckGlob == {"js", "ts", "json"}
\* --ext ".ts,.js" of line 9
EslintExts == {"ts", "js"}

Matched(fs, glob) == {f \in DOMAIN fs : fs[f].ext \in glob}

\* prettier --write <glob>: rewrites every matched file that parses; status 2
\* when a matched file does not parse or the pattern matches nothing.
PrettierWrite(fs, glob) ==
    [f \in DOMAIN fs |->
        IF f \in Matched(fs, glob) /\ fs[f].fmt = "ugly"
        THEN [fs[f] EXCEPT !.fmt = "ok"] ELSE fs[f]]
PrettierWriteStatus(fs, glob) ==
    IF Matched(fs, glob) = {} \/ \E f \in Matched(fs, glob) : fs[f].fmt = "broken"
    THEN 2 ELSE 0

\* prettier --check <glob>: status 2 on an error, 1 when a matched file is not
\* formatted, 0 otherwise; writes nothing.
PrettierCheckStatus(fs, glob) ==
    IF Matched(fs, glob) = {} \/ \E f \in Matched(fs, glob) : fs[f].fmt = "broken"
    THEN 2
    ELSE IF \E f \in Matched(fs, glob) : fs[f].fmt = "ugly" THEN 1 ELSE 0

\* cargo fmt: rewrites the Rust sources; status 1 when one does not parse.
CargoFmt(fs) ==
    [f \in DOMAIN fs |->
        IF fs[f].ext = "rs" /\ fs[f].fmt = "ugly"
        THEN [fs[f] EXCEPT !.fmt = "ok"] ELSE fs[f]]
CargoFmtStatus(fs) ==
    IF \E f \in DOMAIN fs : fs[f].ext = "rs" /\ fs[f].fmt = "broken" THEN 1 ELSE 0

\* eslint . --ext <exts>: status 1 when a linted file has an error (a file
\* that does not parse is reported as one), 0 otherwise; writes nothing.
EslintStatus(fs, exts) ==
    IF \E f \in DOMAIN fs :
          fs[f].ext \in exts /\ (fs[f].lint = "dirty" \/ fs[f].fmt = "broken")
    THEN 1 ELSE 0

\* The execSync calls of each script, by line.
ScriptLinesNoLint(s) ==
    IF s = "format" THEN <<"L3", "L4">> ELSE <<"L8">>
ScriptLines(s) ==
    IF s = "format" THEN <<"L3", "L4">> ELSE <<"L8", "L9">>

Command(line) ==
    CASE line = "L3" -> "prettier --write"
      [] line = "L4" -> "cargo fmt"
      [] line = "L8" -> "prettier --check"
      [] line = "L9" -> "eslint"

\* What the tool leaves in the working tree, and the status it exits with.
ToolEffect(cmd, fs) ==
    CASE cmd = "prettier --write" -> PrettierWrite(fs, FormatGlob)
      [] cmd = "cargo fmt" -> CargoFmt(fs)
      [] cmd = "prettier --check" -> fs
      [] cmd = "eslint" -> fs
ToolStatus(cmd, fs) ==
    CASE cmd = "prettier --write" -> PrettierWriteStatus(fs, FormatGlob)
      [] cmd = "cargo fmt" -> CargoFmtStatus(fs)
      [] cmd = "prettier --check" -> PrettierCheckStatus(fs, CheckGlob)
      [] cmd = "eslint" -> EslintStatus(fs, EslintExts)

\* execSync throws when the child exits with a non-zero status (spawnSync
\* would return it instead).
ThrowsNever(status) == FALSE
Throws(status) == status # 0

\* The runtime's exit status for an uncaught exception.
UncaughtExitStatus == 1

\* Nothing catches the exception, so the process exits with the runtime's
\* status whatever status the child had.
ExitOnThrowPropagates(status) == status
ExitOnThrow(status) == UncaughtExitStatus

\* spc = [k |-> index of the execSync call in ScriptLines(script), 0 when no
\* script is running, phase |-> "call" | "wait" | "ret" | "end" | "exited"]
NotRunning == [k |-> 0, phase |-> "none"]

ScriptsInit ==
    /\ files \in [1 .. NumFiles -> FileState]
    /\ script = "none"
    /\ spc = NotRunning
    /\ child = "none"
    /\ started = <<>>
    /\ exitStatus = -1
    /\ last = [script |-> "none", status |-> -1]

\* The developer runs one of the two scripts.
Launch(s) ==
    /\ spc.phase \in {"none", "exited"}
    /\ last' = [script |-> script, status |-> exitStatus]
    /\ script' = s
    /\ spc' = [k |-> 1, phase |-> "call"]
    /\ child' = "none"
    /\ started' = <<>>
    /\ exitStatus' = -1
    /\ UNCHANGED files

\* execSync(...) starts the child and blocks.
ExecSpawn ==
    /\ spc.phase = "call"
    /\ child' = Command(ScriptLines(script)[spc.k])
    /\ started' = Append(started, [tool |-> child', status |-> -1])
    /\ spc' = [spc EXCEPT !.phase = "wait"]
    /\ UNCHANGED <<files, script, exitStatus, last>>

\* The child does its work and exits.
ToolExit ==
    /\ spc.phase = "wait"
    /\ files' = ToolEffect(child, files)
    /\ started' = [started EXCEPT ![Len(started)].status = ToolStatus(child, files)]
    /\ child' = "none"
    /\ spc' = [spc EXCEPT !.phase = "ret"]
    /\ UNCHANGED <<script, exitStatus, last>>

\* execSync returns: the script goes on to its next statement.
ExecReturn ==
    /\ spc.phase = "ret"
    /\ ~Throws(started[Len(started)].status)
    /\ spc' = IF spc.k < Len(ScriptLines(script))
              THEN [k |-> spc.k + 1, phase |-> "call"]
              ELSE [k |-> spc.k, phase |-> "end"]
    /\ UNCHANGED <<files, script, child, started, exitStatus, last>>

\* execSync throws: the exception is uncaught and the process exits.
ExecThrow ==
    /\ spc.phase = "ret"
    /\ Throws(started[Len(started)].status)
    /\ spc' = [spc EXCEPT !.phase = "exited"]
    /\ exitStatus' = ExitOnThrow(started[Len(started)].status)
    /\ UNCHANGED <<files, script, child, started, last>>

\* The script runs off its end: the process exits with status 0.
ScriptEnd ==
    /\ spc.phase = "end"
    /\ spc' = [spc EXCEPT !.phase = "exited"]
    /\ exitStatus' = 0
    /\ UNCHANGED <<files, script, child, started, last>>

ScriptsIdle ==
    /\ files = <<>>
    /\ script = "none"
    /\ spc = NotRunning
    /\ child = "none"
    /\ started = <<>>
    /\ exitStatus = -1
    /\ last = [script |-> "none", status |-> -1]

Init == DemoInit /\ ScriptsIdle

Next ==
    \/ NewCamera /\ UNCHANGED scriptVars
    \/ AllocPixels /\ UNCHANGED scriptVars
    \/ InitTimer /\ UNCHANGED scriptVars
    \/ Start /\ UNCHANGED scriptVars
    \/ StartFails /\ UNCHANGED scriptVars
    \/ SetInterval /\ UNCHANGED scriptVars
    \/ TimerElapse /\ UNCHANGED scriptVars
    \/ CallbackBegin /\ UNCHANGED scriptVars
    \/ Fill /\ UNCHANGED scriptVars
    \/ Send /\ UNCHANGED scriptVars
    \/ SendFails /\ UNCHANGED scriptVars
    \/ Increment /\ UNCHANGED scriptVars

Spec == Init /\ [][Next]_vars

\* The process does not stop while it has a step to take: the thread runs
\* the statement it is at, the interval elapses, and the event loop
\* dispatches a pending callback once the stack is empty.  (A statement that
\* can throw may either return or throw; fairness obliges neither.)
Fairness == WF_vars(Next)

SpecFair == Spec /\ Fairness

DemoIdle == DemoInit

InitScripts == ScriptsInit /\ DemoIdle

NextScripts ==
    \/ (\E s \in {"format", "check"} : Launch(s)) /\ UNCHANGED demoVars
    \/ ExecSpawn /\ UNCHANGED demoVars
    \/ ToolExit /\ UNCHANGED demoVars
    \/ ExecReturn /\ UNCHANGED demoVars
    \/ ExecThrow /\ UNCHANGED demoVars
    \/ ScriptEnd /\ UNCHANGED demoVars

SpecScripts == InitScripts /\ [][NextScripts]_vars

(***************************************************************************)
(*                        Properties of the demo                           *)
(***************************************************************************)
FrameBytes == 4 * Width * Height
Pixels == 0 .. Width * Height - 1
CallOrder == <<"new Camera", "start", "setInterval">>
Count(seq, x) == Cardinality({n \in DOMAIN seq : seq[n] = x})

\* C1: at every call of camera.send the buffer passed is exactly
\* width * height * 4 bytes long and the alpha byte (index 4p+3) of every
\* pixel p is 255.
C1_SentFrameShape ==
    sendCalls > 0 =>
        /\ ByteLength(lastSent) = FrameBytes
        /\ DOMAIN lastSent = 0 .. FrameBytes - 1
        /\ \A p \in Pixels : lastSent[4 * p + 3] = 255

C1_Witness ==
    /\ sendCalls = 2
    /\ pc = "L24"
    /\ ByteLength(lastSent) = FrameBytes
    /\ lastSent[FrameBytes - 1] = 255

\* C6: camera.start() is called exactly once, after the Camera is constructed
\* and before the timer is registered, so no send precedes start.
C6_StartBeforeSends ==
    /\ Count(calls, "start") <= 1
    /\ \A n \in DOMAIN calls : calls[n] = CallOrder[n]
    /\ registered => calls = CallOrder
    /\ pc \in {"idle"} \cup CallbackLines => calls = CallOrder
    /\ sendCalls > 0 => camera.started /\ Count(calls, "start") = 1
    /\ camera.started => camera.exists

C6_Witness ==
    /\ sendCalls >= 1
    /\ camera.started
    /\ calls = CallOrder

\* C7: invocations of the timer callback never overlap: at most one is in
\* progress, a new one begins only from the idle event loop, and while one is
\* between its fill and its increment the whole buffer is that tick's fill.
C7_NoOverlap ==
    /\ active \in {0, 1}
    /\ pc \in CallbackLines => active = 1
    /\ pc \in {"L5", "L6", "L8", "L10", "L12", "idle"} => active = 0
    /\ pc \in {"L23", "L24"} =>
          \A p \in Pixels : pixels[4 * p] = timer % 256
    /\ pc = "L24" => lastSent = pixels

\* The interval elapsed again while an invocation was still running, and no
\* second invocation began.
C7_Witness ==
    /\ due
    /\ pc = "L24"
    /\ active = 1
    /\ timer >= 1

\* C8: the timer is never cancelled: once registered it stays registered, in
\* the idle loop a further tick is always enabled, and under fair scheduling
\* the number of frames sent reaches every bound unless a send fails.
C8_NoCancellation ==
    /\ [][registered => registered']_vars
    /\ [](registered /\ pc = "idle" /\ timer < MaxTicks =>
            IF due THEN ENABLED (CallbackBegin /\ UNCHANGED scriptVars)
                   ELSE ENABLED (TimerElapse /\ UNCHANGED scriptVars))
    /\ registered ~> (sends >= MaxTicks \/ pc = "crashed")

\* Two frames have been sent and a third tick is already pending.
C8_Witness ==
    /\ registered
    /\ sends = 2
    /\ pc = "idle"
    /\ due

\* C9: the counter starts at 0 and is incremented by one per tick after the
\* send, so it equals the number of completed sends (one less between the
\* send's return and the increment that follows it); the frame passed to the
\* k-th send has red = k mod 256, green = 0, blue = row mod 256, alpha = 255
\* in every column; the frame of tick 256 is the frame of tick 0.
C9_FrameContents ==
    /\ pc # "L24" => timer = sends
    /\ pc = "L24" => timer + 1 = sends
    /\ sendCalls > 0 =>
          LET k == sendCalls - 1
          IN  /\ \A i \in 0 .. Height - 1 : \A j \in 0 .. Width - 1 :
                    LET p == i * Width + j
                    IN  /\ lastSent[4 * p] = k % 256
                        /\ lastSent[4 * p + 1] = 0
                        /\ lastSent[4 * p + 2] = i % 256
                        /\ lastSent[4 * p + 3] = 255
              /\ k = 256 => lastSent = frame0

\* The second send (k = 1): red is 1 in the first and the last pixel, and
\* the blue byte has wrapped from 255 in row 255 to 0 in row 256.
C9_Witness ==
    /\ sendCalls = 2
    /\ sends = 2
    /\ timer = 1
    /\ lastSent[0] = 1
    /\ lastSent[4 * (Width * Height - 1)] = 1
    /\ lastSent[4 * (255 * Width) + 2] = 255
    /\ lastSent[4 * (256 * Width) + 2] = 0
    /\ lastSent # frame0

\* C10: a fill writes no index outside the buffer, writes every index of the
\* buffer exactly once, and the one buffer allocated at startup is the one
\* passed to every send, never reallocated or resized.
C10_WritesInRange ==
    /\ allocs <= 1
    /\ pixelsBuf \in {0, 1}
    /\ allocs = 1 => ByteLength(pixels) = FrameBytes
    /\ fill.oob = {}
    /\ pc \in {"L23", "L24"} \/ sendCalls > 0 =>
          /\ DOMAIN fill.cnt = 0 .. FrameBytes - 1
          /\ \A x \in 0 .. FrameBytes - 1 : fill.cnt[x] = 1
    /\ sendCalls > 0 => sentBuf = 1 /\ pixelsBuf = 1

C10_Witness ==
    /\ pc = "L23"
    /\ timer = 1
    /\ fill.cnt[FrameBytes - 1] = 1
    /\ fill.cnt[0] = 1
    /\ sentBuf = pixelsBuf

(***************************************************************************)
(*                      Properties of the scripts                          *)
(***************************************************************************)
Exited == spc.phase = "exited"
Failed(e) == e.status > 0
PrettierFiles == {f \in DOMAIN files : files[f].ext \in {"js", "ts", "json"}}
LintedFiles == {f \in DOMAIN files : files[f].ext \in {"js", "ts"}}
WellFormatted ==
    /\ PrettierFiles # {}
    /\ \A f \in PrettierFiles : files[f].fmt = "ok"
LintClean ==
    \A f \in LintedFiles : files[f].lint = "clean" /\ files[f].fmt # "broken"

\* C2: the check script exits with status 0 when the tree is correctly
\* formatted and lint-clean (the formatter check and the linter both exit
\* zero) and with a failure status when it is not (one of them exits
\* non-zero).
C2_CheckVerdict ==
    script = "check" /\ Exited =>
        /\ WellFormatted /\ LintClean => exitStatus = 0
        /\ ~(WellFormatted /\ LintClean) => exitStatus > 0
        /\ exitStatus = 0 <=>
              /\ Len(started) = 2
              /\ started[1] = [tool |-> "prettier --check", status |-> 0]
              /\ started[2] = [tool |-> "eslint", status |-> 0]
        /\ exitStatus > 0 <=> \E n \in DOMAIN started : Failed(started[n])

C2_Witness ==
    /\ script = "check"
    /\ Exited
    /\ exitStatus = 0
    /\ WellFormatted
    /\ LintClean

\* C3: after the format script has run to completion no file the check
\* script's formatter invocation matches still fails the formatter's check,
\* and the formatter check of a check run that follows it exits zero.
C3_FormatThenCheck ==
    /\ script = "format" /\ Exited /\ exitStatus = 0 =>
          /\ \A f \in PrettierFiles : files[f].fmt = "ok"
          /\ PrettierCheckStatus(files, {"js", "ts", "json"}) = 0
    /\ /\ script = "check"
       /\ last = [script |-> "format", status |-> 0]
       /\ Len(started) >= 1
       /\ started[1].status # -1
       => started[1] = [tool |-> "prettier --check", status |-> 0]

C3_Witness ==
    /\ script = "check"
    /\ last = [script |-> "format", status |-> 0]
    /\ Len(started) >= 1
    /\ started[1] = [tool |-> "prettier --check", status |-> 0]
    /\ \E f \in PrettierFiles : files[f].ext = "json"

\* C4 as stated: when an invoked tool exits with a non-zero status, the
\* script's own exit status is that tool's exit status.
C4_StatusPropagated ==
    Exited => \A n \in DOMAIN started :
                  Failed(started[n]) => exitStatus = started[n].status

\* C4 as amended: when an invoked tool exits with a non-zero status the
\* script exits with the runtime's uncaught-exception status 1, whatever the
\* tool's status was; it exits with 0 exactly when no tool failed.
C4_FailurePropagated ==
    Exited =>
        /\ (\E n \in DOMAIN started : Failed(started[n])) => exitStatus = 1
        /\ (\A n \in DOMAIN started : started[n].status = 0) => exitStatus = 0
        /\ exitStatus \in {0, 1}

C4_Witness ==
    /\ Exited
    /\ exitStatus = 1
    /\ started[Len(started)].status = 2

\* C5: the two tools of a script run strictly one after the other: the
\* second is started only after the first has exited with status zero; when
\* the first exits non-zero the script ends and the second is never started;
\* no tool is started twice.
C5_Sequential ==
    /\ Len(started) <= 2
    /\ \A n \in DOMAIN started :
          started[n].tool = Command(IF script = "format"
                                    THEN <<"L3", "L4">>[n] ELSE <<"L8", "L9">>[n])
    /\ Len(started) = 2 => started[1].status = 0
    /\ child # "none" =>
          /\ started[Len(started)] = [tool |-> child, status |-> -1]
          /\ spc.phase = "wait"
    /\ Exited /\ Len(started) >= 1 /\ Failed(started[1]) => Len(started) = 1

\* The first tool failed, the script has ended, the second never started.
C5_Witness ==
    /\ Exited
    /\ Len(started) = 1
    /\ Failed(started[1])
    /\ \E f \in LintedFiles : files[f].lint = "dirty"

====
